---------------------------- MODULE Spec2Model ----------------------------
(***************************************************************************)
(* Model of control::computeOptimalGuidanceLaw, the Optimal Guidance Law   *)
(* (OGL) evaluator of openastro/control, as it exists in the two headers   *)
(*     include/control/optimalGuidanceLaw.hpp   (header "control")         *)
(*     include/Control/optimalGuidanceLaw.hpp   (header "Control")         *)
(* and as it is called by test/testOptimalGuidanceLawEigen.cpp.            *)
(*                                                                         *)
(* Real is modelled exactly: a finite Real is a rational n/d in lowest     *)
(* terms with d > 0; the IEEE-754 results of the unguarded divisions are   *)
(* the records with d = 0 (n = 1: +inf, n = -1: -inf, n = 0: NaN).         *)
(* Zero carries no sign, and equality of Reals is equality of records.     *)
(* A Vector3 is a sequence of three Reals; source index i is index i + 1.  *)
(* Each statement of the function body is one step of the calling process. *)
(***************************************************************************)
EXTENDS Integers, Sequences, FiniteSets, TLC

VARIABLES
    mem,     \* the callers' vector objects: address -> Vector3
    inputs,  \* per process: the arguments at the call site
    hdr,     \* per process: the header its translation unit includes
    pc,      \* per process: the statement it is about to execute
    auto,    \* automatic storage: slot -> the locals of the function body
    out      \* per process: the value the last call returned

vars == <<mem, inputs, hdr, pc, auto, out>>

---------------------------------------------------------------------------
(* Bounds of the model.                                                    *)

MaxTime == 2
MaxDenom == 2
MaxGain == 1
NumThreads == 2
MaxCoef == 1

---------------------------------------------------------------------------
(* Real arithmetic.                                                        *)

Sgn(n) == IF n > 0 THEN 1 ELSE IF n < 0 THEN -1 ELSE 0

Abs(n) == IF n < 0 THEN -n ELSE n

RECURSIVE GCD(_, _)
GCD(a, b) == IF b = 0 THEN a ELSE GCD(b, a % b)

Rat(n, d) ==
    LET g == GCD(Abs(n), d)
    IN  [n |-> n \div g, d |-> d \div g]

Zero == [n |-> 0, d |-> 1]

NaN == [n |-> 0, d |-> 0]

IsFinite(x) == x.d # 0

IsNaN(x) == x.d = 0 /\ x.n = 0

RNeg(x) == [n |-> -x.n, d |-> x.d]

RMul(x, y) ==
    IF x.d = 0 \/ y.d = 0
    THEN [n |-> Sgn(x.n) * Sgn(y.n), d |-> 0]
    ELSE LET g1 == GCD(Abs(x.n), y.d)
             g2 == GCD(Abs(y.n), x.d)
         IN  [n |-> (x.n \div g1) * (y.n \div g2),
              d |-> (x.d \div g2) * (y.d \div g1)]

RInv(y) ==
    IF y.d = 0 THEN (IF y.n = 0 THEN NaN ELSE Zero)
    ELSE IF y.n = 0 THEN [n |-> 1, d |-> 0]
    ELSE [n |-> Sgn(y.n) * y.d, d |-> Abs(y.n)]

RDiv(x, y) == RMul(x, RInv(y))

RAdd(x, y) ==
    IF x.d = 0 \/ y.d = 0
    THEN IF IsNaN(x) \/ IsNaN(y) THEN NaN
         ELSE IF x.d # 0 THEN y
         ELSE IF y.d # 0 THEN x
         ELSE IF x.n = y.n THEN x ELSE NaN
    ELSE LET g == GCD(x.d, y.d)
         IN  Rat(x.n * (y.d \div g) + y.n * (x.d \div g), (x.d \div g) * y.d)

RSub(x, y) == RAdd(x, RNeg(y))

VScale(a, v) == [i \in 1..3 |-> RMul(a, v[i])]

VAdd(v, w) == [i \in 1..3 |-> RAdd(v[i], w[i])]

Milli(n) == Rat(n, 1000)

Vec(a, b, c) == <<a, b, c>>

ZeroVector == Vec(Zero, Zero, Zero)

---------------------------------------------------------------------------
(* The caller: the values of test/testOptimalGuidanceLawEigen.cpp and the  *)
(* bounded sets the other arguments are drawn from.                        *)

TestTimeToGo == Milli(12516)

TestZeroEffortMiss == Vec(Milli(-21163), Milli(9887), Milli(-613))

TestZeroEffortVelocity == Vec(Milli(-1244), Milli(-112), Milli(3119))

UnitVector == Vec(Rat(1, 1), Rat(-2, 1), Rat(3, 1))

Pool == <<ZeroVector, TestZeroEffortMiss, TestZeroEffortVelocity, UnitVector>>

Times == {Rat(n, d) : n \in -MaxTime..MaxTime, d \in 1..MaxDenom} \cup {TestTimeToGo}

GainValues == {Rat(n, 1) : n \in -MaxGain..MaxGain}

GainLists ==
    {<<>>} \cup {<<a>> : a \in GainValues}
           \cup {<<a, b>> : a \in GainValues, b \in GainValues}

Inputs == [zem : DOMAIN Pool, zev : DOMAIN Pool, timeToGo : Times, gains : GainLists]

Headers == {"control", "Control"}

---------------------------------------------------------------------------
(* The function, statement by statement.                                   *)

DefaultZeroEffortMissGain == Rat(6, 1)

DefaultZeroEffortVelocityGain == Rat(-2, 1)

ZeroEffortMissGain(in) ==
    IF Len(in.gains) >= 1 THEN in.gains[1] ELSE DefaultZeroEffortMissGain

ZeroEffortVelocityGain(in) ==
    IF Len(in.gains) >= 2 THEN in.gains[2] ELSE DefaultZeroEffortVelocityGain

(* Mutant: header control with the gain of header Control.                 *)
MissPremultiplierVelocityGain(missGain, velocityGain, timeToGo) ==
    RDiv(velocityGain, RMul(timeToGo, timeToGo))

MissPremultiplier_control(missGain, velocityGain, timeToGo) ==
    RDiv(missGain, RMul(timeToGo, timeToGo))

(* Mutant: header Control with the gain of header control.                 *)
MissPremultiplierMissGain(missGain, velocityGain, timeToGo) ==
    RDiv(missGain, RMul(timeToGo, timeToGo))

MissPremultiplier_Control(missGain, velocityGain, timeToGo) ==
    RDiv(velocityGain, RMul(timeToGo, timeToGo))

VelocityPremultiplier(velocityGain, timeToGo) == RDiv(velocityGain, timeToGo)

(* Mutant: the velocity term without its vector component.                 *)
ControlComponentNoZev(missPre, velPre, zem, zev, i) ==
    RAdd(RMul(missPre, zem[i + 1]), velPre)

ControlComponent(missPre, velPre, zem, zev, i) ==
    RAdd(RMul(missPre, zem[i + 1]), RMul(velPre, zev[i + 1]))

(* Mutant: the locals in static storage, one slot for every invocation.    *)
StaticSlot(p) == 1

Slot(p) == p

None == <<>>

Dead == [control |-> Vec(NaN, NaN, NaN), missPre |-> NaN, velPre |-> NaN]

Idle(p) == pc[p] \in {"idle", "done"}

NextInputs(P, in) ==
    /\ \A p \in P : Idle(p)
    /\ inputs' = [q \in DOMAIN inputs |-> IF q \in P THEN in ELSE inputs[q]]
    /\ pc' = [q \in DOMAIN pc |-> IF q \in P THEN "idle" ELSE pc[q]]
    /\ out' = [q \in DOMAIN out |-> IF q \in P THEN None ELSE out[q]]
    /\ UNCHANGED <<mem, hdr, auto>>

Call(p) ==
    /\ pc[p] = "idle"
    /\ pc' = [pc EXCEPT ![p] = "declControl"]
    /\ UNCHANGED <<mem, inputs, hdr, auto, out>>

DeclControl(p) ==
    /\ pc[p] = "declControl"
    /\ auto' = [auto EXCEPT ![Slot(p)].control = mem[inputs[p].zem]]
    /\ pc' = [pc EXCEPT ![p] = "missPremultiplier"]
    /\ UNCHANGED <<mem, inputs, hdr, out>>

DeclMissPremultiplier(p) ==
    /\ pc[p] = "missPremultiplier"
    /\ auto' = [auto EXCEPT ![Slot(p)].missPre =
                    IF hdr[p] = "control"
                    THEN MissPremultiplier_control(ZeroEffortMissGain(inputs[p]),
                                                   ZeroEffortVelocityGain(inputs[p]),
                                                   inputs[p].timeToGo)
                    ELSE MissPremultiplier_Control(ZeroEffortMissGain(inputs[p]),
                                                   ZeroEffortVelocityGain(inputs[p]),
                                                   inputs[p].timeToGo)]
    /\ pc' = [pc EXCEPT ![p] = "velocityPremultiplier"]
    /\ UNCHANGED <<mem, inputs, hdr, out>>

DeclVelocityPremultiplier(p) ==
    /\ pc[p] = "velocityPremultiplier"
    /\ auto' = [auto EXCEPT ![Slot(p)].velPre =
                    VelocityPremultiplier(ZeroEffortVelocityGain(inputs[p]),
                                          inputs[p].timeToGo)]
    /\ pc' = [pc EXCEPT ![p] = "component0"]
    /\ UNCHANGED <<mem, inputs, hdr, out>>

(* Mutant: the component written through the reference to zeroEffortMiss.  *)
AssignComponentToInput(p, i, here, next) ==
    /\ pc[p] = here
    /\ mem' = [mem EXCEPT ![inputs[p].zem][i + 1] =
                   ControlComponent(auto[Slot(p)].missPre, auto[Slot(p)].velPre,
                                    mem[inputs[p].zem], mem[inputs[p].zev], i)]
    /\ pc' = [pc EXCEPT ![p] = next]
    /\ UNCHANGED <<inputs, hdr, auto, out>>

AssignComponent(p, i, here, next) ==
    /\ pc[p] = here
    /\ auto' = [auto EXCEPT ![Slot(p)].control[i + 1] =
                    ControlComponent(auto[Slot(p)].missPre, auto[Slot(p)].velPre,
                                     mem[inputs[p].zem], mem[inputs[p].zev], i)]
    /\ pc' = [pc EXCEPT ![p] = next]
    /\ UNCHANGED <<mem, inputs, hdr, out>>

Return(p) ==
    /\ pc[p] = "return"
    /\ out' = [out EXCEPT ![p] = auto[Slot(p)].control]
    /\ auto' = [auto EXCEPT ![Slot(p)] = Dead]
    /\ pc' = [pc EXCEPT ![p] = "done"]
    /\ UNCHANGED <<mem, inputs, hdr>>

Step(p) ==
    \/ Call(p)
    \/ DeclControl(p)
    \/ DeclMissPremultiplier(p)
    \/ DeclVelocityPremultiplier(p)
    \/ AssignComponent(p, 0, "component0", "component1")
    \/ AssignComponent(p, 1, "component1", "component2")
    \/ AssignComponent(p, 2, "component2", "return")
    \/ Return(p)

InitWith(P, pool, ins, headers) ==
    /\ mem = pool
    /\ inputs = ins
    /\ hdr = headers
    /\ pc = [p \in P |-> "idle"]
    /\ auto = [p \in P |-> Dead]
    /\ out = [p \in P |-> None]

---------------------------------------------------------------------------
(* Spec: the two headers side by side, fed the same arguments.             *)

Builds == 1 :> "control" @@ 2 :> "Control"

OneArgumentChanged(in) ==
    {[in EXCEPT !.zem = a] : a \in DOMAIN Pool}
        \cup {[in EXCEPT !.zev = a] : a \in DOMAIN Pool}
        \cup {[in EXCEPT !.timeToGo = t] : t \in Times}
        \cup {[in EXCEPT !.gains = g] : g \in GainLists}

InOrder(p) == \A q \in DOMAIN pc : q < p => pc[q] = "done"

Init == \E in \in Inputs : InitWith(DOMAIN Builds, Pool, [p \in DOMAIN Builds |-> in], Builds)

Next ==
    \/ \E in \in OneArgumentChanged(inputs[1]) : NextInputs(DOMAIN Builds, in)
    \/ \E p \in DOMAIN pc : InOrder(p) /\ Step(p)

Spec == Init /\ [][Next]_vars

---------------------------------------------------------------------------
(* Vocabulary of the properties.                                           *)

Done(p) == pc[p] = "done"

Zem(p) == mem[inputs[p].zem]

Zev(p) == mem[inputs[p].zev]

TimeToGo(p) == inputs[p].timeToGo

(* r = (kr / t^2) * zem + (kv / t) * zev, stated without a division:       *)
(* r[i] * t * t = kr * zem[i] + (kv * t) * zev[i] for each component.      *)
FormulaHolds(r, kr, kv, t, zem, zev) ==
    \A i \in 1..3 :
        /\ IsFinite(r[i])
        /\ RMul(RMul(r[i], t), t) = RAdd(RMul(kr, zem[i]), RMul(RMul(kv, t), zev[i]))

(* floor(|x| * 10^k) for a finite x, by long division.                     *)
RECURSIVE ScaledAcc(_, _, _, _)
ScaledAcc(acc, r, d, k) ==
    IF k = 0 THEN acc
    ELSE ScaledAcc(acc * 10 + ((r * 10) \div d), (r * 10) % d, d, k - 1)

Scaled(x, k) == ScaledAcc(Abs(x.n) \div x.d, Abs(x.n) % x.d, x.d, k)

(* x rounded to k decimals, as an integer count of 10^-k.                  *)
RoundTo(x, k) == Sgn(x.n) * ((Scaled(x, k + 1) + 5) \div 10)

IsTestCase(p) ==
    /\ Zem(p) = TestZeroEffortMiss
    /\ Zev(p) = TestZeroEffortVelocity
    /\ TimeToGo(p) = TestTimeToGo
    /\ inputs[p].gains = <<>>

---------------------------------------------------------------------------
(* C1: in header control, for every zeroEffortMiss, zeroEffortVelocity,    *)
(* every timeToGo # 0 and every pair of gains, the returned vector is      *)
(* (zeroEffortMissGain / timeToGo^2) * zeroEffortMiss                      *)
(*   + (zeroEffortVelocityGain / timeToGo) * zeroEffortVelocity.           *)
C1_Formula ==
    (Done(1) /\ TimeToGo(1) # Zero) =>
        FormulaHolds(out[1], ZeroEffortMissGain(inputs[1]),
                     ZeroEffortVelocityGain(inputs[1]), TimeToGo(1), Zem(1), Zev(1))

C1_Witness ==
    /\ Done(1)
    /\ hdr[1] = "control"
    /\ TimeToGo(1) = Rat(-1, 2)
    /\ Zem(1) = UnitVector
    /\ Zev(1) = TestZeroEffortVelocity
    /\ inputs[1].gains = <<Rat(1, 1), Rat(-1, 1)>>
    /\ out[1] # Zem(1)

(* C2: in header Control, custom gains kr, kv give                         *)
(* (kr / timeToGo^2) * zeroEffortMiss + (kv / timeToGo) * zeroEffortVelocity*)
(* for every timeToGo # 0: kr is the gain of the ZEM term.                 *)
C2_GainOverride ==
    (Done(2) /\ TimeToGo(2) # Zero /\ Len(inputs[2].gains) = 2) =>
        FormulaHolds(out[2], inputs[2].gains[1], inputs[2].gains[2],
                     TimeToGo(2), Zem(2), Zev(2))

(* C3: in either header, the test's inputs with the gains omitted return   *)
(* (6 / 12.516^2) * zem + (-2 / 12.516) * zev, which rounds to             *)
(* (-0.6118, 0.3966, -0.5219).                                             *)
C3_Golden ==
    \A p \in DOMAIN pc :
        (Done(p) /\ IsTestCase(p)) =>
            /\ FormulaHolds(out[p], Rat(6, 1), Rat(-2, 1), TestTimeToGo,
                            TestZeroEffortMiss, TestZeroEffortVelocity)
            /\ [i \in 1..3 |-> RoundTo(out[p][i], 4)] = <<-6118, 3966, -5219>>

(* The part of C3 that holds: the golden value in header control alone.    *)
C3_GoldenHeaderControl ==
    (Done(1) /\ IsTestCase(1)) =>
        /\ FormulaHolds(out[1], Rat(6, 1), Rat(-2, 1), TestTimeToGo,
                        TestZeroEffortMiss, TestZeroEffortVelocity)
        /\ [i \in 1..3 |-> RoundTo(out[1][i], 4)] = <<-6118, 3966, -5219>>

C3_GoldenHeaderControlWitness == Done(1) /\ IsTestCase(1) /\ hdr[1] = "control"

(* C4: the snapshot of the test. In header Control, the test's inputs with *)
(* the gains omitted return expectedControl in each component within a     *)
(* relative tolerance of 100 machine epsilons.                             *)
(*                                                                         *)
(* A decimal is a sign and 18 decimals in two chunks of 9 (hi, lo), so the *)
(* unit is 10^-18. ToleranceUnits(e) is a lower bound of                   *)
(* 100 * 2^-52 * |e| (100 * 2^-52 > 22 * 10^-15 and                        *)
(* |e| >= (e.hi \div 10^6) * 10^-3). RoundingUnits bounds what double      *)
(* arithmetic adds to the exact value: at most 7 roundings on either term, *)
(* each of relative size 2^-53, so less than 10^-15 * (|term1| + |term2|). *)
(* The exact value must meet the tolerance with that allowance to spare.   *)
RECURSIVE RemAfter(_, _, _)
RemAfter(r, d, k) == IF k = 0 THEN r ELSE RemAfter((r * 10) % d, d, k - 1)

Decimal18(x) ==
    [s |-> Sgn(x.n),
     hi |-> Scaled(x, 9),
     lo |-> ScaledAcc(0, RemAfter(Abs(x.n) % x.d, x.d, 9), x.d, 9)]

ExpectedControl ==
    <<[s |-> 1, hi |-> 468979814, lo |-> 498356000],
      [s |-> -1, hi |-> 108333152, lo |-> 37747000],
      [s |-> -1, hi |-> 490575693, lo |-> 665001000]>>

ToleranceUnits(e) == (e.hi \div 1000000) * 22

RoundingUnits(p, i) ==
    LET t1 == RMul(auto[Slot(p)].missPre, Zem(p)[i])
        t2 == RMul(auto[Slot(p)].velPre, Zev(p)[i])
    IN  (Scaled(t1, 3) + 1) + (Scaled(t2, 3) + 1)

WithinTolerance(x, e, allowance) ==
    /\ IsFinite(x)
    /\ Sgn(x.n) = e.s
    /\ LET X == Decimal18(x)
           dh == X.hi - e.hi
       IN  /\ Abs(dh) <= 1
           /\ Abs(dh * 1000000000 + (X.lo - e.lo)) + 1 + allowance <= ToleranceUnits(e)

C6_ZeroInput ==
    \A p \in DOMAIN pc :
        (Done(p) /\ TimeToGo(p) # Zero /\ Zem(p) = ZeroVector /\ Zev(p) = ZeroVector) =>
            out[p] = ZeroVector

C6_Witness ==
    /\ Done(1) /\ Done(2)
    /\ Zem(2) = ZeroVector /\ Zev(2) = ZeroVector
    /\ TimeToGo(2).n < 0
    /\ inputs[2].gains = <<Rat(1, 1), Rat(-1, 1)>>

(* C9: no validation and no error outcome. In either header, every call    *)
(* with timeToGo # 0, negative values included, returns the formula value, *)
(* and a call with timeToGo = 0 returns the result of the unguarded        *)
(* divisions: no finite component, so no default and no copy of the input. *)
C9_NoValidation ==
    \A p \in DOMAIN pc :
        Done(p) =>
            /\ TimeToGo(p) # Zero =>
                   FormulaHolds(out[p], ZeroEffortMissGain(inputs[p]),
                                ZeroEffortVelocityGain(inputs[p]),
                                TimeToGo(p), Zem(p), Zev(p))
            /\ TimeToGo(p) = Zero => \A i \in 1..3 : ~IsFinite(out[p][i])

(* The part of C9 that holds: the unguarded divisions in either header,    *)
(* and the formula value in header control.                                *)
C9_Unguarded ==
    /\ \A p \in DOMAIN pc :
           (Done(p) /\ TimeToGo(p) = Zero) => \A i \in 1..3 : ~IsFinite(out[p][i])
    /\ (Done(1) /\ TimeToGo(1).n < 0) =>
           FormulaHolds(out[1], ZeroEffortMissGain(inputs[1]),
                        ZeroEffortVelocityGain(inputs[1]), TimeToGo(1), Zem(1), Zev(1))

C9_UnguardedWitness ==
    /\ Done(1) /\ Done(2)
    /\ TimeToGo(1) = Zero
    /\ Zem(1) = ZeroVector
    /\ out[1] = Vec(NaN, NaN, NaN)

C10_WitnessEqual ==
    /\ Done(1) /\ Done(2)
    /\ TimeToGo(1) # Zero
    /\ Zem(1) # ZeroVector
    /\ out[1] = out[2]

(* C8: a call leaves the caller's vectors and the arguments unchanged: the *)
(* working vector is a copy, and its writes never show in zeroEffortMiss.  *)
C8_NoMutation ==
    [][/\ mem' = mem
       /\ \A p \in DOMAIN pc : ~Idle(p) => inputs'[p] = inputs[p]]_vars

C8_Witness ==
    /\ pc[1] = "return"
    /\ mem = Pool
    /\ \A i \in 1..3 : auto[Slot(1)].control[i] # Zem(1)[i]

---------------------------------------------------------------------------
(* SpecThreads: NumThreads threads of one program call the function       *)
(* concurrently, without synchronization, on shared vectors.               *)

Threads == 1..NumThreads

ThreadInputs ==
    [zem : {2, 4}, zev : {3}, timeToGo : {Rat(1, 1), Rat(-1, 2)}, gains : {<<>>}]

InitThreads ==
    \E h \in Headers, ins \in [Threads -> ThreadInputs] :
        InitWith(Threads, Pool, ins, [p \in Threads |-> h])

NextThreads ==
    \/ \E p \in DOMAIN pc, in \in ThreadInputs : NextInputs({p}, in)
    \/ \E p \in DOMAIN pc : Step(p)

SpecThreads == InitThreads /\ [][NextThreads]_vars

(* C7: under every interleaving, an invocation's locals and result depend  *)
(* on its own arguments only: two invocations with identical arguments at  *)
(* the same statement hold identical locals, and return identical results, *)
(* whatever the other threads ran before or meanwhile.                     *)
C7_Deterministic ==
    \A p, q \in DOMAIN pc :
        (pc[p] = pc[q] /\ hdr[p] = hdr[q] /\ inputs[p] = inputs[q]) =>
            /\ auto[Slot(p)] = auto[Slot(q)]
            /\ out[p] = out[q]

C7_Witness ==
    /\ pc[1] = "component2"
    /\ pc[2] = "component2"
    /\ inputs[1] = inputs[2]
    /\ auto[Slot(1)] = auto[Slot(2)]
    /\ auto[Slot(1)].control # Zem(1)

C7_WitnessReturned ==
    /\ Done(1) /\ Done(2)
    /\ inputs[1] = inputs[2]
    /\ out[1] = out[2]
    /\ out[1] # Zem(1)

---------------------------------------------------------------------------
(* SpecLinear: three calls in sequence, the third on the combination       *)
(* a * (first) + b * (second) of the inputs of the first two.              *)

Coefficients == {Rat(n, d) : n \in -MaxCoef..MaxCoef, d \in 1..2}

LinearTimes == {TestTimeToGo, Rat(-1, 2)}

LinearGains == {<<>>, <<Rat(1, 1), Rat(-1, 1)>>}

Combination(a, v, b, w) == VAdd(VScale(a, v), VScale(b, w))

InitLinear ==
    \E h \in Headers, a \in Coefficients, b \in Coefficients,
       i1 \in {2, 4}, i2 \in {2, 4}, j1 \in {3, 4}, j2 \in {3, 4},
       t \in LinearTimes, g \in LinearGains :
        InitWith(1..3,
                 Pool \o <<Combination(a, Pool[i1], b, Pool[i2]),
                           Combination(a, Pool[j1], b, Pool[j2])>>,
                 <<[zem |-> i1, zev |-> j1, timeToGo |-> t, gains |-> g],
                   [zem |-> i2, zev |-> j2, timeToGo |-> t, gains |-> g],
                   [zem |-> Len(Pool) + 1, zev |-> Len(Pool) + 2, timeToGo |-> t, gains |-> g]>>,
                 [p \in 1..3 |-> h])

NextLinear == \E p \in DOMAIN pc : InOrder(p) /\ Step(p)

SpecLinear == InitLinear /\ [][NextLinear]_vars

(* C5: for every timeToGo # 0, fixed gains, scalars a, b and vectors,      *)
(* the result on (a * zem1 + b * zem2, a * zev1 + b * zev2) is exactly     *)
(* a * (result on zem1, zev1) + b * (result on zem2, zev2).                *)
C5_Linear ==
    (Done(1) /\ Done(2) /\ Done(3)) =>
        \A a \in Coefficients, b \in Coefficients :
            (/\ Zem(3) = Combination(a, Zem(1), b, Zem(2))
             /\ Zev(3) = Combination(a, Zev(1), b, Zev(2))) =>
                out[3] = Combination(a, out[1], b, out[2])

C5_Witness ==
    /\ Done(1) /\ Done(2) /\ Done(3)
    /\ Zem(1) # Zem(2)
    /\ Zev(1) # Zev(2)
    /\ Zem(3) = Combination(Rat(1, 2), Zem(1), Rat(-1, 1), Zem(2))
    /\ Zev(3) = Combination(Rat(1, 2), Zev(1), Rat(-1, 1), Zev(2))
    /\ out[3] # out[1]
    /\ out[3] # ZeroVector

===========================================================================
